---- MODULE Spec2Model ----
(***************************************************************************)
(* Model of notebooks/refine.py: the census data refinement pipeline.      *)
(* One run of main(): load the CSV and the JSON dictionary, drop duplicate *)
(* rows, convert every column to Int64, replace -8 by NaN, validate and    *)
(* label the dictionary's columns, null the outliers of                    *)
(* HOURS_PER_WEEK_WORKED and write refined_census_data.csv.                *)
(***************************************************************************)
EXTENDS Integers, Sequences, FiniteSets, TLC

(* ---------------- bounds of the model ---------------- *)
MaxRows == 3
MaxDictEntries == 2

(* ---------------- program constants ---------------- *)
outlier_limit == 100
hours_col == "HOURS_PER_WEEK_WORKED"
output_filepath == "refined_census_data.csv"
family_col == "FAMILY_TYPE"
region_col == "REGION"

VARIABLES
    csv_exists,        \* does args.csv_file resolve
    csv_columns,       \* header of the CSV file
    csv_rows,          \* records of the CSV file, each a function column -> token
    json_status,       \* "ok", "missing" or "malformed"
    json_entries,      \* the dictionary document: sequence of (column, mapping)
    pc,                \* position of the run in main()/refine_data()
    df,                \* the DataFrame: [columns, rows], a row is [idx, cells]
    initial_rows,      \* local of refine_data, <<>> while unbound
    duplicates_removed,\* local of refine_data, <<>> while unbound
    entry,             \* position of the loop over data_dictionary.items()
    inadmissible_count,\* local of refine_data, <<>> while unbound
    outlier_count,     \* local of refine_data, <<>> while unbound
    stdout,            \* the inadmissible and outlier report lines printed
    error,             \* the exception that ended the run, "" if none
    exit_code,         \* <<>> while running, <<0>> or <<1>> once exited
    files              \* output files written by the run: name -> table

vars == <<csv_exists, csv_columns, csv_rows, json_status, json_entries, pc, df,
          initial_rows, duplicates_removed, entry, inadmissible_count,
          outlier_count, stdout, error, exit_code, files>>

inputs == <<csv_exists, csv_columns, csv_rows, json_status, json_entries>>

(* ---------------- values ---------------- *)
\* A cell of a CSV file (a token) or of the DataFrame.
\*   k = "int"     the integer v (int64, or an integral float64, or Int64)
\*   k = "frac"    the non-integral number v + 0.5
\*   k = "na"      NaN / pd.NA (in a file: the empty field)
\*   k = "strint"  the Python str spelling the integer v (object column)
\*   k = "strfrac" the Python str spelling v + 0.5 (object column)
\*   k = "text"    the Python str s, which is no number
Cell(k, v, s) == [k |-> k, v |-> v, s |-> s]
IntCell(n) == Cell("int", n, "")
FracCell(n) == Cell("frac", n, "")
TextCell(s) == Cell("text", 0, s)
NA == Cell("na", 0, "")

EmptyFrame == [columns |-> <<>>, rows |-> <<>>]

Range(f) == {f[i] : i \in DOMAIN f}

\* Sequences over S of length at most n.
SeqUpTo(S, n) == UNION {[1..m -> S] : m \in 0..n}

\* Sequences over S of length at most n without repetition.
InjSeqUpTo(S, n) == {q \in SeqUpTo(S, n) : \A i, j \in DOMAIN q : q[i] = q[j] => i = j}

(* ---------------- inputs of a run ---------------- *)
\* Tokens a field of a one-column file is drawn from.
FullTokens == {IntCell(-8), IntCell(1), IntCell(100), IntCell(120),
               FracCell(100), TextCell("abc"), NA}

\* Tokens the fields of a two-column file are drawn from.
FamilyTokens == {IntCell(1), IntCell(-8), FracCell(1), TextCell("abc")}
HoursTokens == {IntCell(1), IntCell(-8), IntCell(120)}

RowsOver(columns) ==
    IF Len(columns) = 1
    THEN [Range(columns) -> FullTokens]
    ELSE {r \in [Range(columns) -> FamilyTokens \cup HoursTokens] :
            /\ r[family_col] \in FamilyTokens
            /\ r[hours_col] \in HoursTokens}

Headers == {<<family_col>>, <<hours_col>>, <<family_col, hours_col>>}

\* Entries of the dictionary document (JSON object keys are strings).
DictEntries ==
    { [col |-> family_col,
       mapping |-> ("1" :> "Married couple" @@ "-8" :> "No code required")],
      [col |-> hours_col,
       mapping |-> ("1" :> "One hour" @@ "120" :> "Overtime")],
      [col |-> region_col,
       mapping |-> ("1" :> "North")] }

\* A JSON object holds each column name once.
Dictionaries == InjSeqUpTo(DictEntries, MaxDictEntries)

(* ---------------- Loader ---------------- *)
\* pd.read_csv infers one dtype per column: a column holding a field that is
\* no number is an object column of str (empty fields NaN); any other column
\* is numeric.
IsObjectColumn(rows, c) == \E i \in DOMAIN rows : rows[i][c].k = "text"

read_field(tok, object) ==
    IF ~object THEN tok
    ELSE CASE tok.k = "int" -> Cell("strint", tok.v, "")
           [] tok.k = "frac" -> Cell("strfrac", tok.v, "")
           [] OTHER -> tok

read_csv(columns, rows) ==
    [columns |-> columns,
     rows |-> [i \in DOMAIN rows |->
                 [idx |-> i - 1,
                  cells |-> [c \in Range(columns) |->
                               read_field(rows[i][c], IsObjectColumn(rows, c))]]]]

\* The try/except blocks of the loading section: which one ends the run.
LoadOutcome_ignores_decode_error(exists, status) ==
    IF ~exists THEN "csv_not_found"
    ELSE IF status = "missing" THEN "json_not_found"
    ELSE "loaded"

LoadOutcome(exists, status) ==
    IF ~exists THEN "csv_not_found"
    ELSE IF status = "missing" THEN "json_not_found"
    ELSE IF status = "malformed" THEN "json_decode_error"
    ELSE "loaded"

(* ---------------- Deduplicator ---------------- *)
\* DataFrame.duplicated(keep="first"): a row is a duplicate when an earlier
\* row holds the same values (NaN equal to NaN).
RECURSIVE KeepFirst(_, _, _)
KeepFirst(rows, i, seen) ==
    IF i > Len(rows) THEN <<>>
    ELSE IF rows[i].cells \in seen THEN KeepFirst(rows, i + 1, seen)
    ELSE <<rows[i]>> \o KeepFirst(rows, i + 1, seen \cup {rows[i].cells})

RECURSIVE KeepLast(_, _, _)
KeepLast(rows, i, seen) ==
    IF i < 1 THEN <<>>
    ELSE IF rows[i].cells \in seen THEN KeepLast(rows, i - 1, seen)
    ELSE KeepLast(rows, i - 1, seen \cup {rows[i].cells}) \o <<rows[i]>>

drop_duplicates_keep_last(d) == [d EXCEPT !.rows = KeepLast(d.rows, Len(d.rows), {})]

drop_duplicates(d) == [d EXCEPT !.rows = KeepFirst(d.rows, 1, {})]

(* ---------------- Type Normalizer ---------------- *)
\* pd.to_numeric(errors="coerce") on one value.
to_numeric(cell) ==
    CASE cell.k = "strint" -> IntCell(cell.v)
      [] cell.k = "strfrac" -> FracCell(cell.v)
      [] cell.k = "text" -> NA
      [] OTHER -> cell

\* .astype("Int64") raises when a value of the column is not integral.
astype_raises(d, c) == \E i \in DOMAIN d.rows : to_numeric(d.rows[i].cells[c]).k = "frac"

\* The loop over dtype_mapping: a column whose conversion raises is reported
\* and left as it is.
convert_columns(d) ==
    [d EXCEPT !.rows =
        [i \in DOMAIN d.rows |->
            [d.rows[i] EXCEPT !.cells =
                [c \in DOMAIN d.rows[i].cells |->
                    IF astype_raises(d, c) THEN d.rows[i].cells[c]
                    ELSE to_numeric(d.rows[i].cells[c])]]]]

RECURSIVE conversion_reports(_, _)
conversion_reports(d, j) ==
    IF j > Len(d.columns) THEN <<>>
    ELSE (IF astype_raises(d, d.columns[j])
          THEN <<[kind |-> "unable_to_convert", col |-> d.columns[j], n |-> 0]>>
          ELSE <<>>) \o conversion_reports(d, j + 1)

(* ---------------- Sentinel Replacer ---------------- *)
\* df.replace(-8, np.nan): every value equal to the number -8, in every column.
replace_value(cell) == IF cell.k = "int" /\ cell.v = -8 THEN NA ELSE cell

replace_sentinel(d) ==
    [d EXCEPT !.rows =
        [i \in DOMAIN d.rows |->
            [d.rows[i] EXCEPT !.cells =
                [c \in DOMAIN d.rows[i].cells |-> replace_value(d.rows[i].cells[c])]]]]

(* ---------------- Code Validator & Labeler ---------------- *)
\* int(k) on the keys the dictionaries of the model use.
IntOf(key) ==
    CASE key = "1" -> 1
      [] key = "-8" -> -8
      [] key = "120" -> 120

IsNumber(cell) == cell.k \in {"int", "frac"}

\* value in keys, for a value of a DataFrame column and a list of ints.
ValueIn(cell, keys) == cell.k = "int" /\ cell.v \in keys

\* True when the value is inadmissible.
is_admissible(value, keys) ==
    IF value.k = "na" \/ (value.k = "int" /\ value.v = -8) THEN FALSE
    ELSE ~ValueIn(value, keys)

admissible_keys(mapping) == {IntOf(k) : k \in DOMAIN mapping \ {"-8"}}

count_inadmissible(d, col, mapping) ==
    Cardinality({i \in DOMAIN d.rows :
                    is_admissible(d.rows[i].cells[col], admissible_keys(mapping))})

\* {int(k): v for k, v in mapping_dict.items()}
int_mapping_dict(mapping) ==
    [n \in {IntOf(k) : k \in DOMAIN mapping} |->
        mapping[CHOOSE k \in DOMAIN mapping : IntOf(k) = n]]

map_value_string_keys(mapping, value) ==
    IF value.k = "strint" /\ value.v \in DOMAIN int_mapping_dict(mapping)
    THEN TextCell(int_mapping_dict(mapping)[value.v])
    ELSE NA

\* Series.map(int_mapping_dict) on one value: a value that is no key gives NaN.
map_value(mapping, value) ==
    IF ValueIn(value, DOMAIN int_mapping_dict(mapping))
    THEN TextCell(int_mapping_dict(mapping)[value.v])
    ELSE NA

\* df[new_col_name] = df[col].map(int_mapping_dict)
add_label_column(d, col, mapping) ==
    LET new_col_name == col \o "_LABEL" IN
    [columns |-> IF new_col_name \in Range(d.columns) THEN d.columns
                 ELSE Append(d.columns, new_col_name),
     rows |-> [i \in DOMAIN d.rows |->
                 [d.rows[i] EXCEPT !.cells =
                     [c \in DOMAIN d.rows[i].cells \cup {new_col_name} |->
                         IF c = new_col_name
                         THEN map_value(mapping, d.rows[i].cells[col])
                         ELSE d.rows[i].cells[c]]]]]

(* ---------------- Outlier Flagger ---------------- *)
\* value > outlier_limit on a number (NaN and pd.NA compare false).
exceeds_or_reaches(cell, limit) ==
    \/ cell.k = "int" /\ cell.v >= limit
    \/ cell.k = "frac" /\ cell.v >= limit

exceeds(cell, limit) ==
    \/ cell.k = "int" /\ cell.v > limit
    \/ cell.k = "frac" /\ cell.v >= limit

\* Comparing a column that holds a str with an int raises TypeError.
comparison_raises(d, col) ==
    \E i \in DOMAIN d.rows : d.rows[i].cells[col].k \in {"strint", "strfrac", "text"}

count_outliers(d) ==
    Cardinality({i \in DOMAIN d.rows : exceeds(d.rows[i].cells[hours_col], outlier_limit)})

null_outliers_drops_rows(d) ==
    [d EXCEPT !.rows =
        SelectSeq(d.rows, LAMBDA r : ~exceeds(r.cells[hours_col], outlier_limit))]

\* df.loc[df[hours_col] > outlier_limit, hours_col] = np.nan
null_outliers(d) ==
    [d EXCEPT !.rows =
        [i \in DOMAIN d.rows |->
            IF exceeds(d.rows[i].cells[hours_col], outlier_limit)
            THEN [d.rows[i] EXCEPT !.cells[hours_col] = NA]
            ELSE d.rows[i]]]

(* ---------------- Writer ---------------- *)
\* One value as DataFrame.to_csv writes it: NaN is the empty field, a str
\* is written as its text.
write_field(cell) ==
    CASE cell.k = "strint" -> IntCell(cell.v)
      [] cell.k = "strfrac" -> FracCell(cell.v)
      [] OTHER -> cell

\* to_csv(index=False): the header and one record per row, without the index.
to_csv(d) ==
    [columns |-> d.columns,
     rows |-> [i \in DOMAIN d.rows |->
                 [c \in Range(d.columns) |-> write_field(d.rows[i].cells[c])]]]

(* ---------------- the run ---------------- *)
Datasets ==
    UNION {{[columns |-> h, rows |-> r] : r \in SeqUpTo(RowsOver(h), MaxRows)} : h \in Headers}

Init ==
    /\ \/ /\ csv_exists = FALSE
          /\ csv_columns = <<>>
          /\ csv_rows = <<>>
       \/ /\ csv_exists = TRUE
          /\ \E t \in Datasets : csv_columns = t.columns /\ csv_rows = t.rows
    /\ \/ /\ json_status \in {"missing", "malformed"}
          /\ json_entries = <<>>
       \/ /\ json_status = "ok"
          /\ json_entries \in Dictionaries
    /\ pc = "load"
    /\ df = EmptyFrame
    /\ initial_rows = <<>>
    /\ duplicates_removed = <<>>
    /\ entry = 1
    /\ inadmissible_count = <<>>
    /\ outlier_count = <<>>
    /\ stdout = <<>>
    /\ error = ""
    /\ exit_code = <<>>
    /\ files = {}

\* An exception nobody catches, or sys.exit(1): the interpreter exits with 1.
Exit1(exception) ==
    /\ pc' = "exited"
    /\ error' = exception
    /\ exit_code' = <<1>>

\* refine_data, LOAD FILES: both try blocks.
Load ==
    /\ pc = "load"
    /\ IF LoadOutcome(csv_exists, json_status) = "loaded"
       THEN /\ df' = read_csv(csv_columns, csv_rows)
            /\ pc' = "dedup"
            /\ UNCHANGED <<error, exit_code>>
       ELSE /\ Exit1("SystemExit")
            /\ UNCHANGED df
    /\ UNCHANGED <<inputs, initial_rows, duplicates_removed, entry,
                   inadmissible_count, outlier_count, stdout, files>>

\* refine_data, REMOVE DUPLICATES.
RemoveDuplicates ==
    /\ pc = "dedup"
    /\ initial_rows' = <<Len(df.rows)>>
    /\ df' = drop_duplicates(df)
    /\ duplicates_removed' = <<Len(df.rows) - Len(df'.rows)>>
    /\ pc' = "convert"
    /\ UNCHANGED <<inputs, entry, inadmissible_count, outlier_count, stdout,
                   error, exit_code, files>>

\* refine_data, VALIDATE DATA TYPE: the loop over dtype_mapping.
ConvertTypes ==
    /\ pc = "convert"
    /\ df' = convert_columns(df)
    /\ stdout' = stdout \o conversion_reports(df, 1)
    /\ pc' = "replace"
    /\ UNCHANGED <<inputs, initial_rows, duplicates_removed, entry,
                   inadmissible_count, outlier_count, error, exit_code, files>>

\* refine_data, df.replace(-8, np.nan, inplace=True).
ReplaceSentinel ==
    /\ pc = "replace"
    /\ df' = replace_sentinel(df)
    /\ pc' = IF Len(json_entries) = 0 THEN "outliers" ELSE "validate"
    /\ UNCHANGED <<inputs, initial_rows, duplicates_removed, entry,
                   inadmissible_count, outlier_count, stdout, error, exit_code,
                   files>>

\* refine_data, VALIDATE CODES AND MAP TO STRINGS: one pass of the loop body.
\* Only the count is computed under "if col in df.columns"; the report and
\* the label column are made for every entry.
ValidateEntry ==
    /\ pc = "validate"
    /\ LET col == json_entries[entry].col
           mapping_dict == json_entries[entry].mapping
           present == col \in Range(df.columns)
           count == IF present THEN <<count_inadmissible(df, col, mapping_dict)>>
                    ELSE inadmissible_count
           printed == IF count # <<>> /\ count[1] > 0
                      THEN Append(stdout, [kind |-> "inadmissible", col |-> col, n |-> count[1]])
                      ELSE stdout
       IN
       IF count = <<>>
       THEN /\ Exit1("UnboundLocalError: inadmissible_count")
            /\ UNCHANGED <<df, entry, inadmissible_count, stdout>>
       ELSE IF ~present
       THEN /\ Exit1("KeyError")
            /\ stdout' = printed
            /\ UNCHANGED <<df, entry, inadmissible_count>>
       ELSE /\ inadmissible_count' = count
            /\ stdout' = printed
            /\ df' = add_label_column(df, col, mapping_dict)
            /\ entry' = entry + 1
            /\ pc' = IF entry = Len(json_entries) THEN "outliers" ELSE "validate"
            /\ UNCHANGED <<error, exit_code>>
    /\ UNCHANGED <<inputs, initial_rows, duplicates_removed, outlier_count, files>>

\* refine_data, IDENTIFY OUTLIERS AND ANOMALIES. Only the count is computed
\* under "if hours_col in df.columns".
FlagOutliers ==
    /\ pc = "outliers"
    /\ LET present == hours_col \in Range(df.columns)
           count == IF present THEN <<count_outliers(df)>> ELSE outlier_count
       IN
       IF present /\ comparison_raises(df, hours_col)
       THEN /\ Exit1("TypeError")
            /\ UNCHANGED <<df, outlier_count, stdout>>
       ELSE IF count = <<>>
       THEN /\ Exit1("UnboundLocalError: outlier_count")
            /\ UNCHANGED <<df, outlier_count, stdout>>
       ELSE /\ outlier_count' = count
            /\ IF count[1] > 0
               THEN /\ stdout' = Append(stdout, [kind |-> "outliers", col |-> hours_col, n |-> count[1]])
                    /\ df' = null_outliers(df)
               ELSE UNCHANGED <<df, stdout>>
            /\ pc' = "save"
            /\ UNCHANGED <<error, exit_code>>
    /\ UNCHANGED <<inputs, initial_rows, duplicates_removed, entry,
                   inadmissible_count, files>>

\* main, Save refined data: to_csv either succeeds or raises.
Save ==
    /\ pc = "save"
    /\ \E written \in BOOLEAN :
         IF written
         THEN /\ files' = files \cup {[name |-> output_filepath, table |-> to_csv(df)]}
              /\ pc' = "exited"
              /\ exit_code' = <<0>>
              /\ UNCHANGED error
         ELSE /\ Exit1("Exception")
              /\ UNCHANGED files
    /\ UNCHANGED <<inputs, df, initial_rows, duplicates_removed, entry,
                   inadmissible_count, outlier_count, stdout>>

Next ==
    \/ Load
    \/ RemoveDuplicates
    \/ ConvertTypes
    \/ ReplaceSentinel
    \/ ValidateEntry
    \/ FlagOutliers
    \/ Save

Spec == Init /\ [][Next]_vars

(* ======================= properties ======================= *)
Columns == Range(df.columns)
LabelOf(col) == col \o "_LABEL"
Missing(cell) == cell.k = "na"
\* The cell holds -8, as a number or as the field "-8" of the file.
IsSentinel(cell) == cell.k \in {"int", "strint"} /\ cell.v = -8
\* The key of a dictionary mapping that spells the integer n, if any.
KeysFor(mapping, n) == {k \in DOMAIN mapping : IntOf(k) = n}
\* dictionary[C][value] when value is a key, missing otherwise.
ExpectedLabel(mapping, cell) ==
    IF cell.k = "int" /\ KeysFor(mapping, cell.v) # {}
    THEN TextCell(mapping[CHOOSE k \in KeysFor(mapping, cell.v) : TRUE])
    ELSE NA
\* The number the cell holds is strictly greater than 100.
Above100(cell) ==
    \/ cell.k = "int" /\ cell.v > 100
    \/ cell.k = "frac" /\ 2 * cell.v + 1 > 200
RowIds(d) == [i \in DOMAIN d.rows |-> d.rows[i].idx]
LoadFails == ~csv_exists \/ json_status \in {"missing", "malformed"}
Returned == pc = "save" \/ (pc = "exited" /\ error \in {"", "Exception"})
Written == pc = "exited" /\ exit_code = <<0>>

(* C1: when the CSV path or the dictionary path does not resolve, or the
   dictionary cannot be parsed, the run ends with exit status 1 by sys.exit,
   the Writer is never reached and no output file is written. *)
C1_LoadFailureExits1 ==
    LoadFails =>
        /\ pc \in {"load", "exited"}
        /\ pc = "exited" => exit_code = <<1>> /\ error = "SystemExit"
        /\ files = {}

C1_Witness == pc = "exited" /\ csv_exists /\ json_status = "malformed" /\ exit_code = <<1>>

(* C2: the Deduplicator's output has no two equal rows, every row of it is a
   row of its input, each distinct input row survives as its first
   occurrence, and the survivors keep their relative order. *)
C2_Deduplicator ==
    [][pc = "dedup" =>
        LET D == df.rows
            out == df'.rows
        IN
        /\ \A i, j \in DOMAIN out : out[i].cells = out[j].cells => i = j
        /\ \A i \in DOMAIN out : \E j \in DOMAIN D : D[j] = out[i]
        /\ \A j \in DOMAIN D : \E i \in DOMAIN out :
              /\ out[i].cells = D[j].cells
              /\ out[i].idx <= D[j].idx
        /\ \A i, j \in DOMAIN out : i < j => out[i].idx < out[j].idx
        /\ df'.columns = df.columns]_vars

C2_Witness ==
    /\ pc = "convert"
    /\ Len(csv_rows) = 3
    /\ csv_rows[1] = csv_rows[3]
    /\ csv_rows[1] # csv_rows[2]
    /\ RowIds(df) = <<0, 1>>
    /\ duplicates_removed = <<1>>

(* C3: after the Type Normalizer every value of every column is an integer
   or missing. *)
C3_IntegerOrMissing ==
    pc = "replace" =>
        \A i \in DOMAIN df.rows : \A c \in Columns :
            df.rows[i].cells[c].k \in {"int", "na"}

\* The values of a column that are not missing, not -8 and no key other than -8.
C4_Inadmissible(col, mapping) ==
    IF col \in Columns
    THEN {i \in DOMAIN df.rows :
            LET cell == df.rows[i].cells[col] IN
            /\ ~Missing(cell)
            /\ ~IsSentinel(cell)
            /\ ~(cell.k = "int" /\ KeysFor(mapping, cell.v) \ {"-8"} # {})}
    ELSE {}

(* C4: once the Sentinel Replacer and the Code Validator have run, no
   dictionary-covered column holds -8, and every inadmissible count reported
   for a column is the number of its values that are not missing, not -8 and
   not a dictionary key other than -8. *)
C4_SentinelNeverCounted ==
    (pc \in {"validate", "outliers"} \/ error = "KeyError") =>
        /\ \A e \in 1..(entry - 1) : \A i \in DOMAIN df.rows :
              ~IsSentinel(df.rows[i].cells[json_entries[e].col])
        /\ \A r \in DOMAIN stdout : stdout[r].kind = "inadmissible" =>
              \E e \in DOMAIN json_entries :
                 /\ json_entries[e].col = stdout[r].col
                 /\ stdout[r].n = Cardinality(C4_Inadmissible(stdout[r].col, json_entries[e].mapping))

(* C5 as claimed: in the table refine_data returns, C_LABEL is
   dictionary[C][value of C in that row] when that value is a key, and
   missing otherwise. *)
C5_LabelOfReturnedValue ==
    Returned =>
        \A e \in DOMAIN json_entries : \A i \in DOMAIN df.rows :
            df.rows[i].cells[LabelOf(json_entries[e].col)]
                = ExpectedLabel(json_entries[e].mapping, df.rows[i].cells[json_entries[e].col])

(* C5 amended: in the table refine_data returns, C_LABEL is the dictionary
   label of the value C held when the labeler ran: of the value of C in that
   row, except that a HOURS_PER_WEEK_WORKED value above 100, nulled by the
   Outlier Flagger after labeling, keeps the label of the value the file
   gave; a value that was -8 in the file has no label. *)
C5_LabelOfLabeledValue ==
    Returned =>
        \A e \in DOMAIN json_entries : \A i \in DOMAIN df.rows :
            LET col == json_entries[e].col
                mapping == json_entries[e].mapping
                value == df.rows[i].cells[col]
                label == df.rows[i].cells[LabelOf(col)]
                field == csv_rows[df.rows[i].idx + 1][col]
            IN
            /\ \/ label = ExpectedLabel(mapping, value)
               \/ /\ col = hours_col
                  /\ Missing(value)
                  /\ Above100(field)
                  /\ label = ExpectedLabel(mapping, field)
            /\ field = IntCell(-8) => Missing(label)

C5_Witness ==
    /\ pc = "save"
    /\ \E i, j \in DOMAIN df.rows :
          /\ LabelOf(hours_col) \in Columns
          /\ df.rows[i].cells[hours_col] = NA
          /\ df.rows[i].cells[LabelOf(hours_col)] = TextCell("Overtime")
          /\ df.rows[j].cells[hours_col] = IntCell(1)
          /\ df.rows[j].cells[LabelOf(hours_col)] = TextCell("One hour")

\* The data columns of a written table, as a second run reads them.
C6_SecondInput(table) ==
    read_csv(csv_columns, [i \in DOMAIN table.rows |->
                              [c \in Range(csv_columns) |-> table.rows[i][c]]])

(* C6: a second run on the data columns of the refined output removes no
   row as a duplicate: the refined output holds no two identical rows. *)
C6_Idempotent ==
    Written =>
        \A f \in files :
            Len(drop_duplicates(C6_SecondInput(f.table)).rows) = Len(f.table.rows)

(* C7: with no HOURS_PER_WEEK_WORKED column the Outlier Flagger is skipped
   without any error: the run goes on to the Writer with the table as it
   was. *)
C7_FlaggerSkipped ==
    [][pc = "outliers" /\ hours_col \notin Columns =>
        /\ pc' = "save"
        /\ error' = ""
        /\ df' = df]_vars

(* C8: a dictionary entry whose column is not in the dataset is skipped
   without error: no report, no label column, no failure. *)
C8_AbsentColumnSkipped ==
    [][pc = "validate" /\ json_entries[entry].col \notin Columns =>
        /\ error' = ""
        /\ pc' \in {"validate", "outliers"}
        /\ stdout' = stdout
        /\ df' = df]_vars

(* C9: the steps after the Deduplicator never add, remove or reorder a row,
   and the table the Writer writes has the input's row count minus the
   duplicates the Deduplicator removed. *)
C9_RowsKept ==
    [][/\ pc \in {"convert", "replace", "validate", "outliers", "save"} =>
            RowIds(df') = RowIds(df)
       /\ \A f \in files' \ files :
            /\ Len(f.table.rows) = Len(csv_rows) - duplicates_removed[1]
            /\ Len(f.table.rows) = Len(df.rows)]_vars

C9_Witness ==
    /\ Written
    /\ duplicates_removed = <<1>>
    /\ outlier_count = <<1>>
    /\ \E f \in files : Len(f.table.rows) = 2
    /\ \E i \in DOMAIN csv_rows : csv_rows[i][hours_col] = IntCell(-8)

(* C10: when HOURS_PER_WEEK_WORKED is present the Outlier Flagger replaces
   with missing exactly its values strictly greater than 100 and changes no
   other cell, no row and no column. *)
C10_OnlyOutliersNulled ==
    [][pc = "outliers" /\ hours_col \in Columns =>
        /\ df'.columns = df.columns
        /\ RowIds(df') = RowIds(df)
        /\ \A i \in DOMAIN df.rows : \A c \in Columns :
              df'.rows[i].cells[c] =
                 IF c = hours_col /\ Above100(df.rows[i].cells[c])
                 THEN NA
                 ELSE df.rows[i].cells[c]]_vars

C10_Witness ==
    /\ pc = "save"
    /\ outlier_count = <<1>>
    /\ \E i, j, k \in DOMAIN df.rows :
          /\ df.rows[i].cells[hours_col] = IntCell(100)
          /\ df.rows[j].cells[hours_col] = NA
          /\ csv_rows[df.rows[j].idx + 1][hours_col] = IntCell(120)
          /\ df.rows[k].cells[hours_col] = NA
          /\ csv_rows[df.rows[k].idx + 1][hours_col] = NA

====
